---- MODULE Spec2Model ----
(***************************************************************************)
(* A model of the emu8080 fetch-execute loop (src/src/cpu.rs), its flag    *)
(* rules (src/src/registers.rs), its opcode decoder (src/src/op_code.rs)   *)
(* and its memory (src/src/memory.rs).                                     *)
(*                                                                         *)
(* A cpu state is a record  s  with the fields of struct Cpu plus the      *)
(* outcome of the run so far:                                              *)
(*   status = "running"   the loop of Cpu::emulate is still going          *)
(*            "finished"  the loop left because pc reached the image end   *)
(*            "panicked"  a panic!/unimplemented!/bounds/overflow panic    *)
(*                        unwound the run; panic holds its message         *)
(* Every method of Cpu is an operator from a cpu state to a cpu state; a   *)
(* panic inside a method leaves the fields as they were when it was raised.*)
(***************************************************************************)
EXTENDS Integers, Sequences, FiniteSets, TLC

VARIABLES
    program_counter,   \* Cpu.program_counter : u16
    stack_pointer,     \* Cpu.stack_pointer   : u16
    registers,         \* Cpu.registers       : Registers
    flags,             \* Cpu.flags           : Flags
    memory,            \* Cpu.memory          : Memory
    status,            \* outcome of Cpu::emulate so far
    panic,             \* the panic message once status = "panicked"
    overflow_checks,   \* build profile: TRUE = arithmetic overflow panics
    hist               \* the instructions executed so far, newest first

vars == <<program_counter, stack_pointer, registers, flags, memory,
          status, panic, overflow_checks, hist>>

\* Width of u8 and u16 values.
U8 == 256
U16 == 65536

\* ------------------------------------------------------------------ bits

RECURSIVE count_ones(_)
\* u16::count_ones: the number of 1 bits of value.
count_ones(value) ==
    IF value = 0 THEN 0 ELSE (value % 2) + count_ones(value \div 2)

RECURSIVE BitAnd(_, _)
\* a & b
BitAnd(a, b) ==
    IF a = 0 \/ b = 0 THEN 0
    ELSE (a % 2) * (b % 2) + 2 * BitAnd(a \div 2, b \div 2)

RECURSIVE BitOr(_, _)
\* a | b
BitOr(a, b) ==
    IF a = 0 THEN b
    ELSE IF b = 0 THEN a
    ELSE (IF (a % 2) + (b % 2) > 0 THEN 1 ELSE 0) + 2 * BitOr(a \div 2, b \div 2)

RECURSIVE BitXor(_, _)
\* a ^ b
BitXor(a, b) ==
    IF a = 0 THEN b
    ELSE IF b = 0 THEN a
    ELSE (((a % 2) + (b % 2)) % 2) + 2 * BitXor(a \div 2, b \div 2)

\* (x << n) on a u8: the bits shifted past bit 7 are lost.
Shl8(x, n) == (x * (2 ^ n)) % U8

\* `b as u8` of a bool.
BoolToU8(b) == IF b THEN 1 ELSE 0

\* ---------------------------------------------------------------- OpCode

\* OpCode::extract_registry_pair_description
extract_registry_pair_description(value) == BitAnd(value, 16) \div 16

\* OpCode::extract_single_registry_operation
extract_single_registry_operation(value) == BitAnd(value, 192) \div 64

\* OpCode::extract_first_operand
extract_first_operand(value) == BitAnd(value, 56) \div 8

\* OpCode::extract_second_operand
extract_second_operand(value) == BitAnd(value, 7)

\* OpCode::extract_jmp_description is called by Cpu::jump_to_address and is
\* not part of the sources: the decoder's "secondary test" that tells the
\* unconditional 0xC3 from the conditional 0xC2, the two jump opcodes whose
\* first-operand field is 0. They differ in bit 0 alone.
extract_jmp_description(value) == BitAnd(value, 1)

\* ---------------------------------------------------------------- Memory
\* Memory.mapping is a Vec<u8> holding the loaded image and nothing more.
\* It is kept as its length, len, and its non-zero cells: an address below
\* len outside DOMAIN cells holds 0.

\* Memory::instructions_len
instructions_len(mem) == mem.len

\* Memory::fetch_byte_at_offset, for a pointer inside the Vec.
fetch_byte_at_offset(mem, pointer) ==
    IF pointer \in DOMAIN mem.cells THEN mem.cells[pointer] ELSE 0

\* Memory::set_byte_at_offset, for a pointer inside the Vec.
set_byte_at_offset(mem, pointer, value) ==
    LET keep == DOMAIN mem.cells \ {pointer}
        dom  == IF value = 0 THEN keep ELSE keep \cup {pointer}
    IN  [mem EXCEPT !.cells =
            [x \in dom |-> IF x = pointer THEN value ELSE mem.cells[x]]]

\* Indexing the Vec at pointer panics when pointer is not below its length.
OutOfBounds(mem, pointer) == pointer >= mem.len

\* Memory::new on an image given as a sequence of bytes (offset 0 first),
\* followed by zero bytes up to length len.
MemoryNew(image, len) ==
    [len |-> len,
     cells |-> [x \in {i - 1 : i \in {j \in 1..Len(image) : image[j] # 0}}
                    |-> image[x + 1]]]

\* ------------------------------------------------------------- Registers

\* Registers::new
RegistersNew == [acc |-> 0, b |-> 0, c |-> 0, d |-> 0, e |-> 0, h |-> 0, l |-> 0]

\* Registers::get_hl
get_hl(r) == BitOr(r.h * 256, r.l)

\* Registers::get_de
get_de(r) == BitOr(r.d * 256, r.e)

\* Registers::get_bc
get_bc(r) == BitOr(r.b * 256, r.c)

\* Registers::set_bc, set_de and set_hl are called by Cpu and are not part
\* of the sources: they split a 16-bit value into the pair's two cells,
\* high byte in the first-named register.
set_bc(r, value) == [r EXCEPT !.b = value \div 256, !.c = value % 256]

set_de(r, value) == [r EXCEPT !.d = value \div 256, !.e = value % 256]

set_hl(r, value) == [r EXCEPT !.h = value \div 256, !.l = value % 256]

\* ----------------------------------------------------------------- Flags

\* Flags::new
FlagsNew ==
    [zero |-> FALSE, sign |-> FALSE, parity |-> FALSE, carry |-> FALSE,
     aux_carry |-> FALSE]

\* Flags::set_zero
set_zero(f, value) == [f EXCEPT !.zero = (count_ones(value) = 0)]

\* Flags::set_parity
set_parity(f, value) == [f EXCEPT !.parity = (count_ones(value) % 2 = 0)]

\* Flags::set_sign
set_sign(f, value) == [f EXCEPT !.sign = (BitAnd(value, 128) # 0)]

\* Flags::set_carry
set_carry(f, value) == [f EXCEPT !.carry = (value > 255)]

\* set_all with a sign that, once set, stays set.
SetAllStickySign(f, value) ==
    LET g == set_carry(set_parity(set_sign(set_zero(f, value), value), value), value)
    IN  [g EXCEPT !.sign = f.sign \/ g.sign]

\* Flags::set_all
set_all(f, value) == set_carry(set_parity(set_sign(set_zero(f, value), value), value), value)

\* Flags::set_single_registry_operation_flags
set_single_registry_operation_flags(f, value) ==
    set_parity(set_sign(set_zero(f, value), value), value)

\* Flags::set_carry_on_double is called by Cpu::double_add and is not part
\* of the sources: carry is true iff the 32-bit sum exceeds 0xFFFF.
set_carry_on_double(f, value) == [f EXCEPT !.carry = (value > 65535)]

\* ------------------------------------------------------------------- Cpu

\* The messages of the panics the run can end in.
UnknownOpCode == "Unknown op code"
UnknownSingle == "Unknown single registry operation"
UnknownImmediate == "Unknown immediate operation"
UnknownPair == "Unknown register pair"
UnknownRotation == "Unknown rotation direction"
NotImplemented == "not implemented"
IndexPanic == "index out of bounds"
AddOverflow == "attempt to add with overflow"
SubOverflow == "attempt to subtract with overflow"

\* panic!(m): the run unwinds with the fields as they are.
Panic(s, m) == [s EXCEPT !.status = "panicked", !.panic = m]

Panicked(s) == s.status = "panicked"

\* x + k on u16 operands: whether it passes 0xFFFF, and its wrapped value.
AddU16(x, k) == [overflow |-> x + k >= U16, value |-> (x + k) % U16]

\* x - k on u16 operands: whether it passes below 0, and its wrapped value.
SubU16(x, k) == [overflow |-> x < k, value |-> (x + U16 - k) % U16]

\* `self.program_counter += k`: a build with overflow checks panics when the
\* sum passes 0xFFFF, a build without them wraps.
AdvancePc(s, k) ==
    LET sum == AddU16(s.program_counter, k)
    IN  IF sum.overflow /\ overflow_checks THEN Panic(s, AddOverflow)
        ELSE [s EXCEPT !.program_counter = sum.value]

\* Cpu::extract_register_address: the register a 3-bit selector names.
extract_register_address(encoded) ==
    CASE encoded = 0 -> "b"
      [] encoded = 1 -> "c"
      [] encoded = 2 -> "d"
      [] encoded = 3 -> "e"
      [] encoded = 4 -> "h"
      [] encoded = 5 -> "l"
      [] encoded = 7 -> "acc"

\* Whether Cpu::extract_memory_or_register / set_memory_or_register panics:
\* selector 0b110 indexes memory at HL.
MemoryOrRegisterPanics(s, encoded) ==
    encoded = 6 /\ OutOfBounds(s.memory, get_hl(s.registers))

\* Cpu::extract_memory_or_register
extract_memory_or_register(s, encoded_source) ==
    IF encoded_source = 6
    THEN fetch_byte_at_offset(s.memory, get_hl(s.registers))
    ELSE s.registers[extract_register_address(encoded_source)]

\* Cpu::set_memory_or_register
set_memory_or_register(s, encoded_address, value) ==
    IF encoded_address = 6
    THEN IF OutOfBounds(s.memory, get_hl(s.registers)) THEN Panic(s, IndexPanic)
         ELSE [s EXCEPT !.memory = set_byte_at_offset(@, get_hl(s.registers), value)]
    ELSE [s EXCEPT !.registers[extract_register_address(encoded_address)] = value]

\* add with the carry-in dropped from the sum.
AddWithoutCarryIn(s, value, carry) ==
    LET result == s.registers.acc + value
    IN  [s EXCEPT !.flags = set_all(@, result), !.registers.acc = result % U8]

\* Cpu::add
add(s, value, carry) ==
    LET result == s.registers.acc + value + BoolToU8(carry)
    IN  [s EXCEPT !.flags = set_all(@, result), !.registers.acc = result % U8]

\* subtract with the carry-in left out of the subtrahend.
SubtractWithoutBorrowIn(s, value, carry) ==
    LET result == SubU16(s.registers.acc, value).value
    IN  [s EXCEPT !.flags = set_all(@, result), !.registers.acc = result % U8]

\* Cpu::subtract
subtract(s, value, carry) ==
    LET result == SubU16(s.registers.acc, value + BoolToU8(carry)).value
    IN  [s EXCEPT !.flags = set_all(@, result), !.registers.acc = result % U8]

\* and with the carry flag left as it was.
AndKeepingCarry(s, value) ==
    LET result == BitAnd(s.registers.acc, value)
    IN  [s EXCEPT !.flags = set_single_registry_operation_flags(@, result),
                  !.registers.acc = result % U8]

\* Cpu::and
and(s, value) ==
    LET result == BitAnd(s.registers.acc, value)
    IN  [s EXCEPT !.flags = set_all(@, result), !.registers.acc = result % U8]

\* Cpu::or
or(s, value) ==
    LET result == BitOr(s.registers.acc, value)
    IN  [s EXCEPT !.flags = set_all(@, result), !.registers.acc = result % U8]

\* Cpu::xor
xor(s, value) ==
    LET result == BitXor(s.registers.acc, value)
    IN  [s EXCEPT !.flags = set_all(@, result), !.registers.acc = result % U8]

\* Cpu::comparison: the difference is taken on u8 operands, then widened.
comparison(s, value) ==
    LET result == (s.registers.acc + U8 - value) % U8
    IN  [s EXCEPT !.flags = set_all(@, result)]

\* Cpu::arithmetic_operation
arithmetic_operation(s, op) ==
    LET encoded_operation == extract_first_operand(op)
        encoded_addend == extract_second_operand(op)
        value == extract_memory_or_register(s, encoded_addend)
        s1 == CASE encoded_operation = 0 -> add(s, value, FALSE)
                [] encoded_operation = 1 -> add(s, value, s.flags.carry)
                [] encoded_operation = 2 -> subtract(s, value, FALSE)
                [] encoded_operation = 3 -> subtract(s, value, s.flags.carry)
                [] encoded_operation = 4 -> and(s, value)
                [] encoded_operation = 5 -> xor(s, value)
                [] encoded_operation = 6 -> or(s, value)
                [] encoded_operation = 7 -> comparison(s, value)
    IN  IF MemoryOrRegisterPanics(s, encoded_addend) THEN Panic(s, IndexPanic)
        ELSE AdvancePc(s1, 1)

\* Cpu::halt
halt(s) == Panic(s, NotImplemented)

\* transfer with the two selectors exchanged: the first-operand field read
\* as the source and the second-operand field as the destination.
TransferSwapped(s, op) ==
    LET encoded_source == extract_first_operand(op)
        source == extract_memory_or_register(s, encoded_source)
        encoded_dest == extract_second_operand(op)
        s1 == set_memory_or_register(s, encoded_dest, source)
    IN  IF MemoryOrRegisterPanics(s, encoded_source) THEN Panic(s, IndexPanic)
        ELSE IF Panicked(s1) THEN s1
        ELSE AdvancePc(s1, 1)

\* Cpu::transfer (with Cpu::extract_source_value)
transfer(s, op) ==
    LET encoded_source == extract_second_operand(op)
        source == extract_memory_or_register(s, encoded_source)
        encoded_dest == extract_first_operand(op)
        s1 == set_memory_or_register(s, encoded_dest, source)
    IN  IF MemoryOrRegisterPanics(s, encoded_source) THEN Panic(s, IndexPanic)
        ELSE IF Panicked(s1) THEN s1
        ELSE AdvancePc(s1, 1)

\* change_single_registry_value with the flags set through set_all.
ChangeSingleRegistryValueWithSetAll(s, encoded_address, value) ==
    set_memory_or_register(
        [s EXCEPT !.flags = set_all(@, value)], encoded_address, value)

\* Cpu::change_single_registry_value
change_single_registry_value(s, encoded_address, value) ==
    set_memory_or_register(
        [s EXCEPT !.flags = set_single_registry_operation_flags(@, value)],
        encoded_address, value)

\* rotate_acc with the previous carry rotated into the accumulator.
RotateThroughCarry(s, direction) ==
    LET acc == s.registers.acc
        carry == BoolToU8(s.flags.carry)
    IN  CASE direction = 0 ->
               [s EXCEPT !.flags.carry = (BitAnd(acc, 128) # 0),
                         !.registers.acc = BitOr(Shl8(acc, 1), carry)]
          [] direction = 1 ->
               [s EXCEPT !.flags.carry = (BitAnd(acc, 1) # 0),
                         !.registers.acc = BitOr(acc \div 2, Shl8(carry, 7))]
          [] OTHER -> Panic(s, UnknownRotation)

\* Cpu::rotate_acc
rotate_acc(s, direction) ==
    LET acc == s.registers.acc
    IN  CASE direction = 0 ->
               [s EXCEPT !.flags.carry = (BitAnd(acc, 128) # 0),
                         !.registers.acc = BitOr(Shl8(acc, 1), acc \div 128)]
          [] direction = 1 ->
               [s EXCEPT !.flags.carry = (BitAnd(acc, 1) # 0),
                         !.registers.acc = BitOr(acc \div 2, Shl8(acc, 7))]
          [] OTHER -> Panic(s, UnknownRotation)

\* Cpu::immediate_arithmetic
immediate_arithmetic(s, operation) ==
    LET s1 == AdvancePc(s, 1)
        data == fetch_byte_at_offset(s1.memory, s1.program_counter)
    IN  IF Panicked(s1) THEN s1
        ELSE IF OutOfBounds(s1.memory, s1.program_counter) THEN Panic(s1, IndexPanic)
        ELSE CASE operation = 0 -> add(s1, data, FALSE)
               [] operation = 4 -> and(s1, data)
               [] operation = 7 -> comparison(s1, data)
               [] operation = 1 -> add(s1, data, TRUE)
               [] operation = 2 -> subtract(s1, data, FALSE)
               [] operation = 3 -> subtract(s1, data, TRUE)
               [] operation = 5 -> xor(s1, data)
               [] operation = 6 -> or(s1, data)
               [] OTHER -> Panic(s1, UnknownImmediate)

\* move_immediate reading the byte after the opcode with pc left on the
\* opcode.
MoveImmediateWithoutAdvance(s, address) ==
    LET next == AddU16(s.program_counter, 1)
        data == fetch_byte_at_offset(s.memory, next.value)
    IN  IF next.overflow /\ overflow_checks THEN Panic(s, AddOverflow)
        ELSE IF OutOfBounds(s.memory, next.value) THEN Panic(s, IndexPanic)
        ELSE set_memory_or_register(s, address, data)

\* Cpu::move_immediate
move_immediate(s, address) ==
    LET s1 == AdvancePc(s, 1)
        data == fetch_byte_at_offset(s1.memory, s1.program_counter)
    IN  IF Panicked(s1) THEN s1
        ELSE IF OutOfBounds(s1.memory, s1.program_counter) THEN Panic(s1, IndexPanic)
        ELSE set_memory_or_register(s1, address, data)

\* x + 1 with no carry from the low byte into the high byte.
IncrementLowByte(x) == (x \div 256) * 256 + ((x + 1) % 256)

\* increment_double with only the low byte of each pair incremented.
IncrementDoubleLowByteOnly(s, address) ==
    CASE address = 0 ->
           [s EXCEPT !.registers = set_bc(@, IncrementLowByte(get_bc(@)))]
      [] address = 2 ->
           [s EXCEPT !.registers = set_de(@, IncrementLowByte(get_de(@)))]
      [] address = 4 ->
           [s EXCEPT !.registers = set_hl(@, IncrementLowByte(get_hl(@)))]
      [] address = 6 ->
           [s EXCEPT !.stack_pointer = IncrementLowByte(@)]
      [] OTHER -> Panic(s, UnknownPair)

\* increment_double with an unknown pair selector passed over in silence.
IncrementDoubleSkippingUnknown(s, address) ==
    CASE address = 0 ->
           [s EXCEPT !.registers = set_bc(@, (get_bc(@) + 1) % U16)]
      [] address = 2 ->
           [s EXCEPT !.registers = set_de(@, (get_de(@) + 1) % U16)]
      [] address = 4 ->
           [s EXCEPT !.registers = set_hl(@, (get_hl(@) + 1) % U16)]
      [] address = 6 ->
           [s EXCEPT !.stack_pointer = (@ + 1) % U16]
      [] OTHER -> s

\* Cpu::increment_double: each pair is incremented as a Wrapping<u16>.
increment_double(s, address) ==
    CASE address = 0 ->
           [s EXCEPT !.registers = set_bc(@, (get_bc(@) + 1) % U16)]
      [] address = 2 ->
           [s EXCEPT !.registers = set_de(@, (get_de(@) + 1) % U16)]
      [] address = 4 ->
           [s EXCEPT !.registers = set_hl(@, (get_hl(@) + 1) % U16)]
      [] address = 6 ->
           [s EXCEPT !.stack_pointer = (@ + 1) % U16]
      [] OTHER -> Panic(s, UnknownPair)

\* double_add with the flags left as they are.
DoubleAddWithoutCarry(s, address) ==
    LET value == CASE address = 1 -> get_bc(s.registers)
                   [] address = 3 -> get_de(s.registers)
                   [] address = 5 -> get_hl(s.registers)
                   [] address = 7 -> s.stack_pointer
        result == get_hl(s.registers) + value
    IN  IF address \notin {1, 3, 5, 7} THEN Panic(s, UnknownPair)
        ELSE [s EXCEPT !.registers = set_hl(@, result % U16)]

\* Cpu::double_add
double_add(s, address) ==
    LET value == CASE address = 1 -> get_bc(s.registers)
                   [] address = 3 -> get_de(s.registers)
                   [] address = 5 -> get_hl(s.registers)
                   [] address = 7 -> s.stack_pointer
        result == get_hl(s.registers) + value
    IN  IF address \notin {1, 3, 5, 7} THEN Panic(s, UnknownPair)
        ELSE [s EXCEPT !.flags = set_carry_on_double(@, result),
                       !.registers = set_hl(@, result % U16)]

\* StatusByte with bit 1 left clear.
StatusByteWithoutFixedBit(f) ==
    BitOr(BitOr(BitOr(BitOr(Shl8(BoolToU8(f.sign), 7),
                            Shl8(BoolToU8(f.zero), 6)),
                      Shl8(BoolToU8(f.aux_carry), 4)),
                Shl8(BoolToU8(f.parity), 2)),
          BoolToU8(f.carry))

\* The status byte Cpu::push_on_stack builds from the flags (0b110 arm).
StatusByte(f) ==
    BitOr(BitOr(BitOr(BitOr(BitOr(Shl8(BoolToU8(f.sign), 7),
                                  Shl8(BoolToU8(f.zero), 6)),
                            Shl8(BoolToU8(f.aux_carry), 4)),
                      Shl8(BoolToU8(f.parity), 2)),
                2),
          BoolToU8(f.carry))

\* push_on_stack with the two bytes written in the other order: the
\* low-named register at sp-1 and the high-named one at sp-2.
PushLowByteFirst(s, address) ==
    LET upper == CASE address = 0 -> s.registers.c
                   [] address = 2 -> s.registers.e
                   [] address = 4 -> s.registers.l
                   [] address = 6 -> StatusByte(s.flags)
        lower == CASE address = 0 -> s.registers.b
                   [] address = 2 -> s.registers.d
                   [] address = 4 -> s.registers.h
                   [] address = 6 -> s.registers.acc
        first == SubU16(s.stack_pointer, 1)
        second == SubU16(s.stack_pointer, 2)
        s1 == [s EXCEPT !.memory = set_byte_at_offset(@, first.value, upper)]
        s2 == [s1 EXCEPT !.memory = set_byte_at_offset(@, second.value, lower)]
    IN  IF address \notin {0, 2, 4, 6} THEN Panic(s, UnknownPair)
        ELSE IF first.overflow /\ overflow_checks THEN Panic(s, SubOverflow)
        ELSE IF OutOfBounds(s.memory, first.value) THEN Panic(s, IndexPanic)
        ELSE IF second.overflow /\ overflow_checks THEN Panic(s1, SubOverflow)
        ELSE IF OutOfBounds(s.memory, second.value) THEN Panic(s1, IndexPanic)
        ELSE [s2 EXCEPT !.stack_pointer = second.value]

\* Cpu::push_on_stack
push_on_stack(s, address) ==
    LET upper == CASE address = 0 -> s.registers.b
                   [] address = 2 -> s.registers.d
                   [] address = 4 -> s.registers.h
                   [] address = 6 -> s.registers.acc
        lower == CASE address = 0 -> s.registers.c
                   [] address = 2 -> s.registers.e
                   [] address = 4 -> s.registers.l
                   [] address = 6 -> StatusByte(s.flags)
        first == SubU16(s.stack_pointer, 1)
        second == SubU16(s.stack_pointer, 2)
        s1 == [s EXCEPT !.memory = set_byte_at_offset(@, first.value, upper)]
        s2 == [s1 EXCEPT !.memory = set_byte_at_offset(@, second.value, lower)]
    IN  IF address \notin {0, 2, 4, 6} THEN Panic(s, UnknownPair)
        ELSE IF first.overflow /\ overflow_checks THEN Panic(s, SubOverflow)
        ELSE IF OutOfBounds(s.memory, first.value) THEN Panic(s, IndexPanic)
        ELSE IF second.overflow /\ overflow_checks THEN Panic(s1, SubOverflow)
        ELSE IF OutOfBounds(s.memory, second.value) THEN Panic(s1, IndexPanic)
        ELSE [s2 EXCEPT !.stack_pointer = second.value]

\* The flags Cpu::pop_off_stack rebuilds from the byte it calls upper
\* (0b110 arm): each one is a u8 shift of the whole byte compared with 0.
FlagsFromStatus(upper) ==
    [sign |-> Shl8(upper, 7) # 0,
     zero |-> Shl8(upper, 6) # 0,
     aux_carry |-> Shl8(upper, 4) # 0,
     parity |-> Shl8(upper, 2) # 0,
     carry |-> upper # 0]

\* Cpu::pop_off_stack
pop_off_stack(s, destination) ==
    LET next == AddU16(s.stack_pointer, 1)
        upper == fetch_byte_at_offset(s.memory, s.stack_pointer)
        lower == fetch_byte_at_offset(s.memory, next.value)
        s1 == CASE destination = 0 ->
                     [s EXCEPT !.registers.b = lower, !.registers.c = upper]
                [] destination = 2 ->
                     [s EXCEPT !.registers.d = lower, !.registers.e = upper]
                [] destination = 4 ->
                     [s EXCEPT !.registers.h = lower, !.registers.l = upper]
                [] destination = 6 ->
                     [s EXCEPT !.registers.acc = lower,
                               !.flags = FlagsFromStatus(upper)]
                [] OTHER -> Panic(s, UnknownPair)
        sum == AddU16(s.stack_pointer, 2)
    IN  IF OutOfBounds(s.memory, s.stack_pointer) THEN Panic(s, IndexPanic)
        ELSE IF next.overflow /\ overflow_checks THEN Panic(s, AddOverflow)
        ELSE IF OutOfBounds(s.memory, next.value) THEN Panic(s, IndexPanic)
        ELSE IF Panicked(s1) THEN s1
        ELSE IF sum.overflow /\ overflow_checks THEN Panic(s1, AddOverflow)
        ELSE [s1 EXCEPT !.stack_pointer = sum.value]

\* Cpu::single_operand_operation
single_operand_operation(s, op) ==
    LET operation == <<extract_single_registry_operation(op),
                       extract_second_operand(op)>>
        encoded_address == extract_first_operand(op)
        value == extract_memory_or_register(s, encoded_address)
        s1 == CASE operation = <<0, 4>> ->
                     IF MemoryOrRegisterPanics(s, encoded_address)
                     THEN Panic(s, IndexPanic)
                     ELSE change_single_registry_value(
                              s, encoded_address, (value + 1) % U8)
                [] operation = <<0, 5>> ->
                     IF MemoryOrRegisterPanics(s, encoded_address)
                     THEN Panic(s, IndexPanic)
                     ELSE change_single_registry_value(
                              s, encoded_address, (value + U8 - 1) % U8)
                [] operation = <<0, 7>> -> rotate_acc(s, encoded_address)
                [] operation = <<0, 1>> -> double_add(s, encoded_address)
                [] operation = <<0, 3>> -> increment_double(s, encoded_address)
                [] operation = <<3, 5>> -> push_on_stack(s, encoded_address)
                [] operation = <<3, 1>> -> pop_off_stack(s, encoded_address)
                [] operation = <<0, 6>> -> move_immediate(s, encoded_address)
                [] operation = <<3, 6>> -> immediate_arithmetic(s, encoded_address)
                [] OTHER -> Panic(s, UnknownSingle)
    IN  IF Panicked(s1) THEN s1 ELSE AdvancePc(s1, 1)

\* load_accumulator setting zero, sign and parity of the loaded byte.
LoadAccumulatorSettingFlags(s, op) ==
    LET registry_pair == extract_registry_pair_description(op)
        address == IF registry_pair = 0 THEN get_de(s.registers)
                   ELSE get_bc(s.registers)
        data == fetch_byte_at_offset(s.memory, address)
    IN  IF OutOfBounds(s.memory, address) THEN Panic(s, IndexPanic)
        ELSE AdvancePc(
                 [s EXCEPT !.registers.acc = data,
                           !.flags = set_single_registry_operation_flags(s.flags, data)],
                 1)

\* Cpu::load_accumulator
load_accumulator(s, op) ==
    LET registry_pair == extract_registry_pair_description(op)
        address == IF registry_pair = 0 THEN get_de(s.registers)
                   ELSE get_bc(s.registers)
    IN  IF OutOfBounds(s.memory, address) THEN Panic(s, IndexPanic)
        ELSE AdvancePc(
                 [s EXCEPT !.registers.acc = fetch_byte_at_offset(s.memory, address)],
                 1)

\* Cpu::exchange_registers
exchange_registers(s) ==
    AdvancePc([s EXCEPT !.registers.h = s.registers.d,
                        !.registers.d = s.registers.h,
                        !.registers.l = s.registers.e,
                        !.registers.e = s.registers.l], 1)

\* fetch_operand_addressed_memory with the two operand bytes taken in the
\* other order: the byte after the opcode as the high byte.
FetchOperandBigEndian(s) ==
    LET high == AddU16(s.program_counter, 2)
        low == AddU16(s.program_counter, 1)
        msb == fetch_byte_at_offset(s.memory, low.value)
        lsb == fetch_byte_at_offset(s.memory, high.value)
    IN  IF high.overflow /\ overflow_checks
        THEN [s |-> Panic(s, AddOverflow), address |-> 0]
        ELSE IF OutOfBounds(s.memory, high.value) \/ OutOfBounds(s.memory, low.value)
        THEN [s |-> Panic(s, IndexPanic), address |-> 0]
        ELSE [s |-> AdvancePc(s, 2), address |-> BitOr(msb * 256, lsb)]

\* Cpu::fetch_operand_addressed_memory: the state it leaves and the address
\* it returns (msb is read before lsb).
fetch_operand_addressed_memory(s) ==
    LET high == AddU16(s.program_counter, 2)
        low == AddU16(s.program_counter, 1)
        msb == fetch_byte_at_offset(s.memory, high.value)
        lsb == fetch_byte_at_offset(s.memory, low.value)
    IN  IF high.overflow /\ overflow_checks
        THEN [s |-> Panic(s, AddOverflow), address |-> 0]
        ELSE IF OutOfBounds(s.memory, high.value) \/ OutOfBounds(s.memory, low.value)
        THEN [s |-> Panic(s, IndexPanic), address |-> 0]
        ELSE [s |-> AdvancePc(s, 2), address |-> BitOr(msb * 256, lsb)]

\* Cpu::load_acc_direct
load_acc_direct(s) ==
    LET f == fetch_operand_addressed_memory(s)
    IN  IF Panicked(f.s) THEN f.s
        ELSE IF OutOfBounds(f.s.memory, f.address) THEN Panic(f.s, IndexPanic)
        ELSE [f.s EXCEPT !.registers.acc = fetch_byte_at_offset(f.s.memory, f.address)]

\* Cpu::store_acc_direct
store_acc_direct(s) ==
    LET f == fetch_operand_addressed_memory(s)
    IN  IF Panicked(f.s) THEN f.s
        ELSE IF OutOfBounds(f.s.memory, f.address) THEN Panic(f.s, IndexPanic)
        ELSE [f.s EXCEPT !.memory = set_byte_at_offset(@, f.address, f.s.registers.acc)]

\* JumpResult with the two carry arms exchanged.
JumpResultCarrySwapped(f, op) ==
    LET instruction == extract_first_operand(op)
    IN  CASE instruction = 0 -> extract_jmp_description(op) > 0 \/ ~f.zero
          [] instruction = 1 -> f.zero
          [] instruction = 2 -> f.carry
          [] instruction = 3 -> ~f.carry
          [] instruction = 4 -> ~f.parity
          [] instruction = 5 -> f.parity
          [] instruction = 6 -> ~f.sign
          [] instruction = 7 -> f.sign

\* The match of Cpu::jump_to_address: whether the jump is taken.
JumpResult(f, op) ==
    LET instruction == extract_first_operand(op)
    IN  CASE instruction = 0 ->
               IF extract_jmp_description(op) > 0 THEN TRUE
               ELSE IF ~f.zero THEN TRUE
               ELSE FALSE
          [] instruction = 1 -> f.zero
          [] instruction = 2 -> ~f.carry
          [] instruction = 3 -> f.carry
          [] instruction = 4 -> ~f.parity
          [] instruction = 5 -> f.parity
          [] instruction = 6 -> ~f.sign
          [] instruction = 7 -> f.sign

\* jump_to_address with the final increment made only when the jump is
\* not taken.
JumpWithoutFinalIncrement(s, op) ==
    LET f == fetch_operand_addressed_memory(s)
        result == JumpResult(f.s.flags, op)
    IN  IF Panicked(f.s) THEN f.s
        ELSE IF result THEN [f.s EXCEPT !.program_counter = f.address]
        ELSE AdvancePc(f.s, 1)

\* Cpu::jump_to_address
jump_to_address(s, op) ==
    LET f == fetch_operand_addressed_memory(s)
        result == JumpResult(f.s.flags, op)
        s1 == IF result THEN [f.s EXCEPT !.program_counter = f.address] ELSE f.s
    IN  IF Panicked(f.s) THEN f.s ELSE AdvancePc(s1, 1)

\* The arm of the match in Cpu::execute that op_code.value selects (the first
\* arm that matches, in the order of the source).
ExecuteArm(value) ==
    CASE value = 0 -> "nop"
      [] value = 55 -> "set_carry"
      [] value = 63 -> "invert_carry"
      [] value = 118 -> "halt"
      [] value \in {10, 26} -> "load_accumulator"
      [] value = 50 -> "store_acc_direct"
      [] value = 58 -> "load_acc_direct"
      [] value \in 1..62 \ {10, 26, 50, 55, 58} -> "single_operand_operation"
      [] value \in 64..127 \ {118} -> "transfer"
      [] value \in 128..191 -> "arithmetic_operation"
      [] value \in {197, 213, 229, 245, 198, 230, 254} -> "single_operand_operation"
      [] value \in {194, 195, 202, 210, 218, 226, 234, 242, 250} -> "jump_to_address"
      [] value = 235 -> "exchange_registers"
      [] OTHER -> "unknown"

\* Cpu::execute
execute(s, value) ==
    LET arm == ExecuteArm(value)
    IN  CASE arm = "nop" -> AdvancePc(s, 1)
          [] arm = "set_carry" -> AdvancePc([s EXCEPT !.flags.carry = TRUE], 1)
          [] arm = "invert_carry" -> AdvancePc([s EXCEPT !.flags.carry = ~@], 1)
          [] arm = "halt" -> halt(s)
          [] arm = "load_accumulator" -> load_accumulator(s, value)
          [] arm = "store_acc_direct" -> store_acc_direct(s)
          [] arm = "load_acc_direct" -> load_acc_direct(s)
          [] arm = "single_operand_operation" -> single_operand_operation(s, value)
          [] arm = "transfer" -> transfer(s, value)
          [] arm = "arithmetic_operation" -> arithmetic_operation(s, value)
          [] arm = "jump_to_address" -> jump_to_address(s, value)
          [] arm = "exchange_registers" -> exchange_registers(s)
          [] arm = "unknown" -> Panic(s, UnknownOpCode)

\* ------------------------------------------------------- the state machine

\* The cpu as a record of the variables.
Cpu ==
    [stack_pointer |-> stack_pointer, program_counter |-> program_counter,
     registers |-> registers, flags |-> flags, memory |-> memory,
     status |-> status, panic |-> panic]

\* How many executed instructions hist remembers.
HistLen == 4

\* The loop condition of Cpu::emulate.
LoopCondition ==
    status = "running" /\ program_counter < instructions_len(memory)

\* The opcode Cpu::emulate fetches.
Fetched == fetch_byte_at_offset(memory, program_counter)

\* The variables take the fields of s; hist records the instruction op and
\* the state it was executed in.
Becomes(op, s) ==
    /\ program_counter' = s.program_counter
    /\ stack_pointer' = s.stack_pointer
    /\ registers' = s.registers
    /\ flags' = s.flags
    /\ memory' = s.memory
    /\ status' = s.status
    /\ panic' = s.panic
    /\ hist' = SubSeq(<<[op |-> op, before |-> Cpu]>> \o hist, 1,
                      IF Len(hist) < HistLen THEN Len(hist) + 1 ELSE HistLen)
    /\ UNCHANGED overflow_checks

\* One turn of the loop of Cpu::emulate fetches an opcode and executes it;
\* there is one action for each arm of the match in Cpu::execute.
Selected(arm) == LoopCondition /\ ExecuteArm(Fetched) = arm

Nop ==
    /\ Selected("nop")
    /\ Becomes(Fetched, execute(Cpu, Fetched))

SetCarry ==
    /\ Selected("set_carry")
    /\ Becomes(Fetched, execute(Cpu, Fetched))

InvertCarry ==
    /\ Selected("invert_carry")
    /\ Becomes(Fetched, execute(Cpu, Fetched))

Halt ==
    /\ Selected("halt")
    /\ Becomes(Fetched, execute(Cpu, Fetched))

LoadAccumulator ==
    /\ Selected("load_accumulator")
    /\ Becomes(Fetched, execute(Cpu, Fetched))

StoreAccDirect ==
    /\ Selected("store_acc_direct")
    /\ Becomes(Fetched, execute(Cpu, Fetched))

LoadAccDirect ==
    /\ Selected("load_acc_direct")
    /\ Becomes(Fetched, execute(Cpu, Fetched))

SingleOperandOperation ==
    /\ Selected("single_operand_operation")
    /\ Becomes(Fetched, execute(Cpu, Fetched))

Transfer ==
    /\ Selected("transfer")
    /\ Becomes(Fetched, execute(Cpu, Fetched))

ArithmeticOperation ==
    /\ Selected("arithmetic_operation")
    /\ Becomes(Fetched, execute(Cpu, Fetched))

JumpToAddress ==
    /\ Selected("jump_to_address")
    /\ Becomes(Fetched, execute(Cpu, Fetched))

ExchangeRegisters ==
    /\ Selected("exchange_registers")
    /\ Becomes(Fetched, execute(Cpu, Fetched))

UnknownOp ==
    /\ Selected("unknown")
    /\ Becomes(Fetched, execute(Cpu, Fetched))

\* Cpu::emulate returns: the program counter reached the end of the image.
EmulateReturns ==
    /\ status = "running"
    /\ ~(program_counter < instructions_len(memory))
    /\ status' = "finished"
    /\ UNCHANGED <<program_counter, stack_pointer, registers, flags, memory,
                   panic, overflow_checks, hist>>

\* ------------------------------------------------------------ the inputs

\* Operand bytes that follow the first opcode of an image.
Operands == {<<3, 0>>, <<255, 255>>}

\* Opcodes that are followed by operand bytes.
WithOperands ==
    {50, 58, 194, 195, 202, 210, 218, 226, 234, 242, 250}
    \cup {6, 14, 22, 30, 38, 46, 54, 62}
    \cup {198, 206, 214, 222, 230, 238, 246, 254}

\* The images the run is started on: every opcode followed by an operand,
\* an increment-B and a no-operation; a push followed by the pop of the
\* same pair; an increment followed by the decrement of the same cell; a
\* store to address 8, a move-immediate to the accumulator and a load from
\* address 8; 64K images whose last three bytes are a jump; and 64K images
\* that start with a store to or a load from address 0x1234.
ShortImages ==
    {<<op, 3, 0, 4, 0>> : op \in 0..255}
    \cup {<<op, 255, 255, 4, 0>> : op \in WithOperands}
    \cup {<<4 + 8 * r, 5 + 8 * r, 0, 0, 0>> : r \in 0..7}
    \cup {<<50, 8, 0, 62, 99, 58, 8, 0, 15>>}
    \cup {<<197, 193, 0, 0, 0>>, <<213, 209, 0, 0, 0>>,
          <<229, 225, 0, 0, 0>>, <<245, 241, 0, 0, 0>>}

Images ==
    {MemoryNew(image, Len(image)) : image \in ShortImages}
    \cup {[MemoryNew(<<195, 252, 255>>, U16) EXCEPT
              !.cells = @ @@ (65533 :> op) @@ (65534 :> 255) @@ (65535 :> 255)]
          : op \in {194, 195}}
    \cup {[MemoryNew(<<op, 52, 18>>, U16) EXCEPT !.cells = @ @@ (4660 :> 77)]
          : op \in {50, 58}}

\* The register files the run is started on.
RegisterFiles ==
    {RegistersNew,
     [acc |-> 62, b |-> 17, c |-> 34, d |-> 51, e |-> 68, h |-> 0, l |-> 3],
     [acc |-> 255, b |-> 1, c |-> 1, d |-> 1, e |-> 1, h |-> 0, l |-> 1],
     [acc |-> 0, b |-> 255, c |-> 255, d |-> 255, e |-> 255, h |-> 255, l |-> 255],
     [acc |-> 128, b |-> 128, c |-> 127, d |-> 128, e |-> 127, h |-> 0, l |-> 4],
     [acc |-> 1, b |-> 2, c |-> 0, d |-> 2, e |-> 0, h |-> 0, l |-> 2],
     [acc |-> 242, b |-> 12, c |-> 255, d |-> 56, e |-> 255, h |-> 0, l |-> 255]}

\* The flags the run is started on: none set, one set, all set.
FlagFiles ==
    {FlagsNew,
     [FlagsNew EXCEPT !.zero = TRUE], [FlagsNew EXCEPT !.sign = TRUE],
     [FlagsNew EXCEPT !.parity = TRUE], [FlagsNew EXCEPT !.carry = TRUE],
     [FlagsNew EXCEPT !.aux_carry = TRUE],
     [zero |-> TRUE, sign |-> TRUE, parity |-> TRUE, carry |-> TRUE,
      aux_carry |-> TRUE]}

\* The stack pointers the run is started on.
StackPointers == {0, 2, 4, 65535}

\* The flags and stack pointer a run of the loop is started on: every flag
\* file with the stack pointer inside the image, and the other stack
\* pointers with the carry clear and set.
FlagsAndStack ==
    {<<f, 4>> : f \in FlagFiles}
    \cup {<<f, sp>> : f \in {FlagsNew, [FlagsNew EXCEPT !.carry = TRUE]},
                      sp \in StackPointers}

\* Cpu::new on one of the images, its registers, flags and stack pointer
\* then set as the tests of cpu.rs set them.
Start(images, flags_and_stack) ==
    /\ memory \in images
    /\ registers \in RegisterFiles
    /\ \E fs \in flags_and_stack : flags = fs[1] /\ stack_pointer = fs[2]
    /\ overflow_checks \in BOOLEAN
    /\ program_counter = 0
    /\ status = "running"
    /\ panic = ""
    /\ hist = <<>>

\* Every combination of the five flags.
AllFlags ==
    [zero : BOOLEAN, sign : BOOLEAN, parity : BOOLEAN, carry : BOOLEAN,
     aux_carry : BOOLEAN]

\* The image that pushes and pops the accumulator and the flags.
PushFlagsImages == {MemoryNew(<<245, 241, 0, 0, 0>>, 5)}

Init ==
    \/ Start(Images, FlagsAndStack)
    \/ Start(PushFlagsImages, AllFlags \X {2, 4})

Next ==
    \/ Nop
    \/ SetCarry
    \/ InvertCarry
    \/ Halt
    \/ LoadAccumulator
    \/ StoreAccDirect
    \/ LoadAccDirect
    \/ SingleOperandOperation
    \/ Transfer
    \/ ArithmeticOperation
    \/ JumpToAddress
    \/ ExchangeRegisters
    \/ UnknownOp
    \/ EmulateReturns

Spec == Init /\ [][Next]_vars

\* The stack methods called on their own, as single_operand_operation calls
\* them for the opcodes 0xC5 + 8 * pair (push) and 0xC1 + 8 * pair (pop),
\* pair = address / 2: hist records that opcode. At most MaxCalls calls are
\* made, on an image of five bytes or of 64K.
StackSelectors == {0, 2, 4, 6}

MaxCalls == 2

StackImages == {MemoryNew(<<0, 0, 0, 4, 0>>, 5), MemoryNew(<<0, 0, 0, 4, 0>>, U16)}

StackInit == Start(StackImages, FlagFiles \X StackPointers)

CallPushOnStack ==
    /\ status = "running"
    /\ Len(hist) < MaxCalls
    /\ \E address \in StackSelectors :
           Becomes(197 + 8 * address, push_on_stack(Cpu, address))

CallPopOffStack ==
    /\ status = "running"
    /\ Len(hist) < MaxCalls
    /\ \E destination \in StackSelectors :
           Becomes(193 + 8 * destination, pop_off_stack(Cpu, destination))

StackNext == CallPushOnStack \/ CallPopOffStack

StackSpec == StackInit /\ [][StackNext]_vars

\* Cpu::single_operand_operation called on the fetched opcode for each of
\* the eight immediate arithmetic/logical opcodes 0xC6 + 8 * selector, as
\* the 0xc6 | 0xe6 | 0xfe arm of Cpu::execute calls it for three of them.
\* The images hold two such instructions; at most MaxCalls calls are made.
ImmediateOps == {198, 206, 214, 222, 230, 238, 246, 254}

ImmediateImages ==
    {MemoryNew(<<op, d, 206, 1, 0>>, 5) :
        op \in ImmediateOps, d \in {0, 1, 15, 255}}

ImmediateInit == Start(ImmediateImages, FlagsAndStack)

CallSingleOperandOperation ==
    /\ LoopCondition
    /\ Len(hist) < MaxCalls
    /\ Fetched \in ImmediateOps
    /\ Becomes(Fetched, single_operand_operation(Cpu, Fetched))

ImmediateNext == CallSingleOperandOperation

ImmediateSpec == ImmediateInit /\ [][ImmediateNext]_vars

\* The loop of Cpu::emulate run from Cpu::new on images in which no jump
\* opcode is executed: one opcode for each arm of Cpu::execute but the
\* jumps, at offset 0 of a five-byte image, and the 64K image of
\* no-operations. The loop is not interrupted: a turn that can be taken is
\* taken.
LiveImages ==
    {MemoryNew(<<op, 3, 0, 4, 0>>, 5) :
        op \in {0, 55, 63, 118, 10, 26, 50, 58, 4, 51, 65, 119, 128, 151, 235, 201}}
    \cup {MemoryNew(<<>>, U16)}

LiveInit ==
    /\ memory \in LiveImages
    /\ registers = RegistersNew
    /\ flags = FlagsNew
    /\ stack_pointer = 0
    /\ overflow_checks \in BOOLEAN
    /\ program_counter = 0
    /\ status = "running"
    /\ panic = ""
    /\ hist = <<>>

LiveNext ==
    \/ Nop
    \/ SetCarry
    \/ InvertCarry
    \/ Halt
    \/ LoadAccumulator
    \/ StoreAccDirect
    \/ LoadAccDirect
    \/ SingleOperandOperation
    \/ Transfer
    \/ ArithmeticOperation
    \/ ExchangeRegisters
    \/ UnknownOp
    \/ EmulateReturns

LiveSpec == LiveInit /\ [][LiveNext]_vars /\ WF_vars(LiveNext)

\* ------------------------------------------------------------ Flags calls
\* Flags::set_all called directly, as the tests of registers.rs do, on any
\* flags: hist records the argument of each call in the field op.

\* Arguments of set_all: the values of the tests (0, 0x99, 0x59, 0x9D), the
\* sign bit alone, sums with and without a carry out, and the largest u16.
SetAllValues == {0, 89, 127, 128, 153, 157, 255, 256, 384, 511, 65535}

SetAllInit ==
    /\ memory = MemoryNew(<<0>>, 1)
    /\ registers = RegistersNew
    /\ flags \in AllFlags
    /\ stack_pointer = 0
    /\ overflow_checks \in BOOLEAN
    /\ program_counter = 0
    /\ status = "running"
    /\ panic = ""
    /\ hist = <<>>

CallSetAll ==
    /\ Len(hist) < MaxCalls
    /\ \E value \in SetAllValues :
           Becomes(value, [Cpu EXCEPT !.flags = set_all(flags, value)])

SetAllNext == CallSetAll

SetAllSpec == SetAllInit /\ [][SetAllNext]_vars

\* ============================================================ properties

\* The newest instruction of hist is one of ops and ran to its end.
Done(ops) == Len(hist) > 0 /\ hist[1].op \in ops /\ status # "panicked"

\* The state the newest instruction of hist was executed in.
Before == hist[1].before

\* The operand of the newest instruction: the byte after the opcode for an
\* immediate form (class 3), else the register or memory cell its low three
\* bits select.
Operand ==
    IF hist[1].op >= 192
    THEN fetch_byte_at_offset(Before.memory, Before.program_counter + 1)
    ELSE IF hist[1].op % 8 = 6
    THEN fetch_byte_at_offset(Before.memory, Before.registers.h * 256 + Before.registers.l)
    ELSE Before.registers[
             <<"b", "c", "d", "e", "h", "l", "m", "acc">>[(hist[1].op % 8) + 1]]

\* ADD r (0x80..0x87), ADC r (0x88..0x8F), ADI (0xC6).
AddOps == (128..135) \cup {198}
AdcOps == 136..143
\* CMP r (0xB8..0xBF), CPI (0xFE).
CompareOps == (184..191) \cup {254}
\* Every opcode that sets the flags through set_all.
SetAllOps == (128..191) \cup {198, 206, 214, 222, 230, 238, 246, 254}

\* C1: add leaves accumulator = (a + v + c) mod 256 and carry iff
\* a + v + c > 255, where ADD uses c = 0 whatever the carry flag is and ADC
\* uses c = the carry flag before the instruction.
C1_AddSum ==
    Done(AddOps \cup AdcOps) =>
        LET c == IF hist[1].op \in AdcOps /\ Before.flags.carry THEN 1 ELSE 0
            sum == Before.registers.acc + Operand + c
        IN  /\ registers.acc = sum % 256
            /\ flags.carry = (sum > 255)

\* An ADC with the carry set whose sum is 255 + 0 + 1 has run.
C1_Witness ==
    /\ Done(AdcOps)
    /\ Before.flags.carry
    /\ Before.registers.acc = 255
    /\ Operand = 0
    /\ registers.acc = 0
    /\ flags.carry

\* C2: after every operation that sets the flags through set_all, zero is
\* true iff the low 8 bits of the result are 0: the accumulator written, or
\* for a compare the difference a - v mod 256.
C2_ZeroIffLowByteZero ==
    Done(SetAllOps) =>
        (flags.zero <=>
            IF hist[1].op \in CompareOps
            THEN Before.registers.acc = Operand
            ELSE registers.acc = 0)

\* C3: comparison leaves the accumulator unchanged and sets zero, sign,
\* parity and carry as subtract(v, carry_in = 0) sets them from the same
\* state; carry is true iff a < v.
C3_CompareIsSubtract ==
    Done(CompareOps) =>
        LET sub == subtract(Before, Operand, FALSE)
        IN  /\ registers.acc = Before.registers.acc
            /\ flags.zero = sub.flags.zero
            /\ flags.sign = sub.flags.sign
            /\ flags.parity = sub.flags.parity
            /\ flags.carry = sub.flags.carry
            /\ flags.carry = (Before.registers.acc < Operand)

\* The jump opcodes.
JumpOps == {194, 195, 202, 210, 218, 226, 234, 242, 250}

\* The newest instruction of hist is a jump whose two operand bytes are
\* part of the image.
JumpRan ==
    /\ Len(hist) > 0
    /\ hist[1].op \in JumpOps
    /\ Before.program_counter + 2 < Before.memory.len

\* The target a jump names: low byte after the opcode, high byte after that.
Target ==
    fetch_byte_at_offset(Before.memory, Before.program_counter + 2) * 256
    + fetch_byte_at_offset(Before.memory, Before.program_counter + 1)

\* The condition of each jump opcode on the flags f.
JumpCondition(op, f) ==
    CASE op = 195 -> TRUE
      [] op = 194 -> ~f.zero
      [] op = 202 -> f.zero
      [] op = 210 -> ~f.carry
      [] op = 218 -> f.carry
      [] op = 226 -> ~f.parity
      [] op = 234 -> f.parity
      [] op = 242 -> ~f.sign
      [] op = 250 -> f.sign

\* The newest instruction changed no register, flag, sp or memory cell.
OnlyPcChanged ==
    /\ registers = Before.registers
    /\ flags = Before.flags
    /\ stack_pointer = Before.stack_pointer
    /\ memory = Before.memory

JumpOverflows ==
    IF JumpCondition(hist[1].op, Before.flags)
    THEN Target = 65535
    ELSE Before.program_counter + 3 > 65535

JnzScenario ==
    /\ Len(hist) > 0
    /\ hist[Len(hist)].op = 194
    /\ hist[Len(hist)].before.program_counter = 0
    /\ hist[Len(hist)].before.memory = MemoryNew(<<194, 3, 0, 4, 0>>, 5)

\* C5: a jump is taken (pc becomes t + 1 rather than p + 3) iff the
\* condition of its opcode holds on the flags before it; and the run of the
\* image [0xC2, 3, 0, 0x04, 0] ends with B incremented exactly when zero was
\* set at the jump.
C5_TakenIffCondition ==
    /\ (JumpRan /\ status # "panicked"
            /\ (Target + 1) % U16 # (Before.program_counter + 3) % U16) =>
          (program_counter = (Target + 1) % U16
              <=> JumpCondition(hist[1].op, Before.flags))
    /\ (JnzScenario /\ status = "finished") =>
          registers.b =
              (hist[Len(hist)].before.registers.b
                  + IF hist[Len(hist)].before.flags.zero THEN 1 ELSE 0) % 256

\* The run of [0xC2, 3, 0, 0x04, 0] with zero set and B = 0 ended with B = 1.
C5_Witness ==
    /\ JnzScenario
    /\ status = "finished"
    /\ hist[Len(hist)].before.flags.zero
    /\ hist[Len(hist)].before.registers.b = 0
    /\ registers.b = 1

\* C6: store accumulator direct (0x32) and load accumulator direct (0x3A)
\* at pc = p consume 3 bytes: the next opcode is fetched at p + 3.
C6_DirectConsumesThreeBytes ==
    Done({50, 58}) => program_counter = Before.program_counter + 3

\* PUSH B, PUSH D, PUSH H; the pop of the same pair is the opcode 4 below.
PushPairOps == {197, 213, 229}

\* C7: for BC, DE, HL and every sp >= 2, push of the pair followed
\* immediately by pop into the same pair restores both registers and sp.
C7_PushPopRestoresPair ==
    (/\ Len(hist) > 1
     /\ hist[2].op \in PushPairOps
     /\ hist[1].op = hist[2].op - 4
     /\ hist[2].before.stack_pointer >= 2) =>
        /\ status # "panicked"
        /\ registers = hist[2].before.registers
        /\ stack_pointer = hist[2].before.stack_pointer

\* C8: push of the accumulator+flags composite (0xF5) followed immediately
\* by its pop (0xF1) restores the accumulator and each of the five flags.
C8_PushPopRestoresFlags ==
    (/\ Len(hist) > 1
     /\ hist[2].op = 245
     /\ hist[1].op = 241
     /\ status # "panicked") =>
        /\ registers.acc = hist[2].before.registers.acc
        /\ flags = hist[2].before.flags

\* The opcodes of class 3 whose second-operand field is 1 (pop), 5 (push)
\* or 6 (immediate arithmetic/logical).
StackAndImmediateOps ==
    {193, 209, 225, 241} \cup {197, 213, 229, 245}
    \cup {198, 206, 214, 222, 230, 238, 246, 254}

\* C9: none of the pop, push and immediate arithmetic/logical opcodes ends
\* in the unrecognized-opcode panic of the top-level dispatch.
C9_StackAndImmediateRouted ==
    (Len(hist) > 0 /\ hist[1].op \in StackAndImmediateOps) =>
        ~(status = "panicked" /\ panic = UnknownOpCode)

\* C10: fetching 0x76 ends the run in a successful state, not in the fatal
\* one, with registers, flags, memory and sp as they were.
C10_HaltIsNotFatal ==
    (Len(hist) > 0 /\ hist[1].op = 118) =>
        /\ status # "panicked"
        /\ OnlyPcChanged

\* The opcodes that are no instruction: in 0x01..0x3E the sub-operations 0
\* and 2, the rotations with a direction above 1 (0x37 and 0x3F are matched
\* earlier), the 16-bit add with an even selector and the 16-bit increment
\* with an odd one; in 0xC0..0xFF everything but the jumps, 0xEB, and the
\* pops, pushes and immediate forms.
UnrecognizedOps ==
    ({op \in 1..62 : op % 8 \in {0, 2}} \ {10, 26, 50, 58})
    \cup {23, 31, 39, 47}
    \cup {1, 17, 33, 49}
    \cup {11, 27, 43, 59}
    \cup ((192..255) \ (JumpOps \cup {235} \cup StackAndImmediateOps))

\* The panics of the decoder.
DecodePanics == {UnknownOpCode, UnknownSingle, UnknownRotation, UnknownPair}

\* C11: an opcode that is no recognized instruction ends the run in the
\* fatal state with registers, flags, memory, pc and sp as they were before
\* it, and it is the last opcode the run fetches.
C11_UnrecognizedIsFatal ==
    \A k \in 1..Len(hist) :
        hist[k].op \in UnrecognizedOps =>
            /\ k = 1
            /\ status = "panicked"
            /\ panic \in DecodePanics
            /\ OnlyPcChanged
            /\ program_counter = Before.program_counter

\* A move-immediate ran, then the byte 0xFF after its operand was fetched
\* and ended the run.
C11_Witness ==
    /\ Len(hist) = 2
    /\ hist[2].op = 6
    /\ hist[1].op = 255
    /\ status = "panicked"
    /\ panic = UnknownOpCode
    /\ program_counter = 2
    /\ registers.b = 255

\* INR r and DCR r for the eight selectors r: 0x04 + 8r and 0x05 + 8r.
IncrementOps == {4 + 8 * r : r \in 0..7}
DecrementOps == {5 + 8 * r : r \in 0..7}

\* The cell the selector in bits 3..5 of op names, in the state s.
Cell(s, op) == extract_memory_or_register(s, (op \div 8) % 8)

\* The selector of op names a register, or the memory cell at an HL that
\* addresses the image.
CellExists(s, op) ==
    (op \div 8) % 8 # 6 \/ get_hl(s.registers) < s.memory.len

\* C12: an increment leaves its cell at (x + 1) mod 256 and a decrement at
\* (x - 1) mod 256, each with the carry flag as it was; so an increment
\* followed by the decrement of the same cell leaves the cell equal to x
\* and the carry equal to the carry before the two instructions.
C12_IncrementThenDecrement ==
    /\ (Len(hist) > 0 /\ hist[1].op \in IncrementOps \cup DecrementOps
            /\ CellExists(Before, hist[1].op)) =>
          /\ status # "panicked"
          /\ Cell(Cpu, hist[1].op) =
                (Cell(Before, hist[1].op)
                    + IF hist[1].op \in IncrementOps THEN 1 ELSE 255) % 256
          /\ flags.carry = Before.flags.carry
    /\ (Len(hist) > 1 /\ hist[2].op \in IncrementOps
            /\ hist[1].op = hist[2].op + 1) =>
          /\ status # "panicked"
          /\ Cell(Cpu, hist[1].op) = Cell(hist[2].before, hist[2].op)
          /\ Before.flags.carry = hist[2].before.flags.carry
          /\ flags.carry = hist[2].before.flags.carry

\* B = 0xFF was incremented to 0 and decremented back to 0xFF with the
\* carry set before, between and after.
C12_Witness ==
    /\ Len(hist) = 2
    /\ hist[2].op = 4
    /\ hist[1].op = 5
    /\ hist[2].before.registers.b = 255
    /\ hist[2].before.flags.carry
    /\ Before.registers.b = 0
    /\ Before.flags.carry
    /\ registers.b = 255
    /\ flags.carry
    /\ status = "running"

\* C13: rotate-left (0x07) leaves accumulator = ((a << 1) | (a >> 7)) mod
\* 256 and carry = bit 7 of a; rotate-right (0x0F) leaves accumulator =
\* (a >> 1) | ((a & 1) << 7) and carry = bit 0 of a; the carry before has no
\* part in either, and zero, sign and parity are as they were.
C13_RotateOverwritesCarry ==
    (Len(hist) > 0 /\ hist[1].op \in {7, 15}) =>
        LET a == Before.registers.acc
        IN  /\ status # "panicked"
            /\ registers.acc = IF hist[1].op = 7
                                THEN ((a * 2) % 256) + (a \div 128)
                                ELSE (a \div 2) + (a % 2) * 128
            /\ flags.carry = IF hist[1].op = 7 THEN a >= 128 ELSE a % 2 = 1
            /\ flags.zero = Before.flags.zero
            /\ flags.sign = Before.flags.sign
            /\ flags.parity = Before.flags.parity

\* 0b11110010 was rotated right with the carry set: the accumulator is
\* 0b01111001 and the carry is clear.
C13_Witness ==
    /\ Len(hist) > 0
    /\ hist[1].op = 15
    /\ Before.registers.acc = 242
    /\ Before.flags.carry
    /\ registers.acc = 121
    /\ ~flags.carry

\* INX B, INX D, INX H, INX SP.
IncrementDoubleOps == {3, 19, 35, 51}

\* The 16-bit value the increment opcode op names in the state s, its high
\* byte taken from the first-named register.
PairOf(s, op) ==
    CASE op = 3 -> s.registers.b * 256 + s.registers.c
      [] op = 19 -> s.registers.d * 256 + s.registers.e
      [] op = 35 -> s.registers.h * 256 + s.registers.l
      [] op = 51 -> s.stack_pointer

\* The registers and the stack pointer of s with the pair of op left out.
OutsidePair(s, op) ==
    CASE op = 3 -> <<s.registers.acc, s.registers.d, s.registers.e,
                     s.registers.h, s.registers.l, s.stack_pointer>>
      [] op = 19 -> <<s.registers.acc, s.registers.b, s.registers.c,
                      s.registers.h, s.registers.l, s.stack_pointer>>
      [] op = 35 -> <<s.registers.acc, s.registers.b, s.registers.c,
                      s.registers.d, s.registers.e, s.stack_pointer>>
      [] op = 51 -> <<s.registers>>

\* C14: the 16-bit increment of BC, DE, HL or the stack pointer leaves the
\* pair at (v + 1) mod 65536, 0xFFFF becoming 0 without a panic, with the
\* high byte in the first-named register, and changes no flag and nothing
\* outside the pair.
C14_IncrementDoubleWraps ==
    (Len(hist) > 0 /\ hist[1].op \in IncrementDoubleOps) =>
        /\ status # "panicked"
        /\ PairOf(Cpu, hist[1].op) = (PairOf(Before, hist[1].op) + 1) % 65536
        /\ OutsidePair(Cpu, hist[1].op) = OutsidePair(Before, hist[1].op)
        /\ flags = Before.flags
        /\ memory = Before.memory

\* DE = 0x38FF was incremented to 0x3900.
C14_Witness ==
    /\ Len(hist) > 0
    /\ hist[1].op = 19
    /\ Before.registers.d = 56
    /\ Before.registers.e = 255
    /\ registers.d = 57
    /\ registers.e = 0
    /\ status = "running"

\* SUB r (0x90..0x97) and SBB r (0x98..0x9F).
SubOps == 144..151
SbbOps == 152..159

\* C15: subtract leaves accumulator = (a - v - c) mod 256 and carry iff
\* a < v + c, where SUB uses c = 0 and SBB uses c = the carry flag before
\* the instruction; subtracting a from a with c = 0 leaves accumulator 0,
\* zero set and carry clear.
C15_SubtractBorrow ==
    Done(SubOps \cup SbbOps) =>
        LET a == Before.registers.acc
            c == IF hist[1].op \in SbbOps /\ Before.flags.carry THEN 1 ELSE 0
        IN  /\ registers.acc = (a + 512 - Operand - c) % 256
            /\ flags.carry = (a < Operand + c)
            /\ (c = 0 /\ Operand = a) =>
                  (registers.acc = 0 /\ flags.zero /\ ~flags.carry)

\* SBB A ran with the carry set: a - a - 1 leaves 0xFF and a borrow.
C15_Witness ==
    /\ Done({159})
    /\ Before.flags.carry
    /\ Before.registers.acc = 62
    /\ registers.acc = 255
    /\ flags.carry

\* STA (0x32) and LDA (0x3A).
DirectOps == {50, 58}

\* The address the k-th newest instruction of hist names in the two bytes
\* after its opcode, low byte first.
TargetAt(k) ==
    fetch_byte_at_offset(hist[k].before.memory, hist[k].before.program_counter + 2) * 256
    + fetch_byte_at_offset(hist[k].before.memory, hist[k].before.program_counter + 1)

\* The k-th newest instruction of hist is a direct store or load whose
\* operand bytes and whose target are cells of the image.
DirectRan(k) ==
    /\ Len(hist) >= k
    /\ hist[k].op \in DirectOps
    /\ hist[k].before.program_counter + 2 < hist[k].before.memory.len
    /\ TargetAt(k) < hist[k].before.memory.len

\* C16: a direct store writes the accumulator to the cell at
\* (mem[p+2] << 8) | mem[p+1] and changes no other cell, no register, no
\* flag and not sp; a direct load sets the accumulator to the byte of that
\* cell and changes no cell, no other register, no flag and not sp; a load
\* from t that runs after a store to t, the cell t not written in between,
\* returns the accumulator that was stored.
C16_DirectStoreLoad ==
    /\ DirectRan(1) =>
          /\ status # "panicked"
          /\ flags = Before.flags
          /\ stack_pointer = Before.stack_pointer
          /\ IF hist[1].op = 50
             THEN /\ fetch_byte_at_offset(memory, TargetAt(1)) = Before.registers.acc
                  /\ \A x \in (DOMAIN memory.cells \cup DOMAIN Before.memory.cells)
                                \ {TargetAt(1)} :
                         fetch_byte_at_offset(memory, x)
                             = fetch_byte_at_offset(Before.memory, x)
                  /\ memory.len = Before.memory.len
                  /\ registers = Before.registers
             ELSE /\ registers =
                        [Before.registers EXCEPT
                            !.acc = fetch_byte_at_offset(Before.memory, TargetAt(1))]
                  /\ memory = Before.memory
    /\ \A k \in 2..Len(hist) :
          (/\ DirectRan(1) /\ hist[1].op = 58
           /\ DirectRan(k) /\ hist[k].op = 50
           /\ TargetAt(k) = TargetAt(1)
           /\ \A j \in 1..(k - 1) :
                  fetch_byte_at_offset(hist[j].before.memory, TargetAt(1))
                      = hist[k].before.registers.acc) =>
              registers.acc = hist[k].before.registers.acc

\* The accumulator 242 was stored to address 8, the accumulator was set to
\* 99, and the load from address 8 brought 242 back.
C16_Witness ==
    /\ Len(hist) = 4
    /\ hist[4].op = 50
    /\ hist[4].before.registers.acc = 242
    /\ TargetAt(4) = 8
    /\ hist[1].op = 58
    /\ TargetAt(1) = 8
    /\ Before.registers.acc = 99
    /\ registers.acc = 242
    /\ status = "running"

\* The four push opcodes.
PushOps == {197, 213, 229, 245}

\* C17: the memory has 65536 cells whatever image was loaded, so no access
\* ends in the bounds panic, and a push executed with sp = 0 completes,
\* writing the high byte at 0xFFFF and the low byte at 0xFFFE and leaving
\* sp = 0xFFFE.
C17_MemoryHas64KCells ==
    /\ instructions_len(memory) = 65536
    /\ ~(status = "panicked" /\ panic = IndexPanic)
    /\ (Len(hist) > 0 /\ hist[1].op \in PushOps
            /\ Before.stack_pointer = 0) =>
          /\ status # "panicked"
          /\ stack_pointer = 65534
          /\ fetch_byte_at_offset(memory, 65535) =
                (CASE hist[1].op = 197 -> Before.registers.b
                   [] hist[1].op = 213 -> Before.registers.d
                   [] hist[1].op = 229 -> Before.registers.h
                   [] hist[1].op = 245 -> Before.registers.acc)

\* The run is over: the loop was left or a panic unwound it.
Stopped == status # "running"

\* The opcode the loop is about to fetch is a jump.
AtJump == LoopCondition /\ ExecuteArm(Fetched) = "jump_to_address"

\* C18: an opcode is fetched only while pc is below the image length; every
\* executed instruction that is not a jump and leaves the run going
\* strictly increases pc; and a run in which no jump opcode is executed
\* terminates: the loop is left or a panic ends it.
C18_RunTerminates ==
    /\ [][hist' # hist => program_counter < instructions_len(memory)]_vars
    /\ [][(hist' # hist /\ status' = "running") =>
              program_counter' > program_counter]_vars
    /\ <>(Stopped \/ AtJump)

\* The newest instruction of hist is a push executed with sp >= 2 whose two
\* stack cells, sp-1 and sp-2, are cells of the image.
PushRan(ops) ==
    /\ Len(hist) > 0
    /\ hist[1].op \in ops
    /\ Before.stack_pointer >= 2
    /\ Before.stack_pointer - 1 < Before.memory.len

\* The high-named and the low-named register of the pair a push opcode
\* names, in the state s.
HighOf(s, op) ==
    CASE op = 197 -> s.registers.b
      [] op = 213 -> s.registers.d
      [] op = 229 -> s.registers.h
      [] op = 245 -> s.registers.acc

LowOf(s, op) ==
    CASE op = 197 -> s.registers.c
      [] op = 213 -> s.registers.e
      [] op = 229 -> s.registers.l

\* Every cell but the two below the stack pointer sp holds what it held
\* before the newest instruction.
OtherCellsKept(sp) ==
    /\ memory.len = Before.memory.len
    /\ \A x \in (DOMAIN memory.cells \cup DOMAIN Before.memory.cells)
                  \ {sp - 1, sp - 2} :
           fetch_byte_at_offset(memory, x) = fetch_byte_at_offset(Before.memory, x)

\* C19: a push of BC, DE or HL with sp >= 2 writes the high-named register
\* to the cell at sp-1 and the low-named register to the cell at sp-2, sets
\* sp to sp-2, and changes no other cell, no register and no flag.
C19_PushWritesPair ==
    PushRan(PushPairOps) =>
        /\ status # "panicked"
        /\ fetch_byte_at_offset(memory, Before.stack_pointer - 1)
              = HighOf(Before, hist[1].op)
        /\ fetch_byte_at_offset(memory, Before.stack_pointer - 2)
              = LowOf(Before, hist[1].op)
        /\ stack_pointer = Before.stack_pointer - 2
        /\ OtherCellsKept(Before.stack_pointer)
        /\ registers = Before.registers
        /\ flags = Before.flags

\* BC = 0x0CFF was pushed with sp = 2: cell 1 holds 0x0C, cell 0 holds 0xFF
\* and sp is 0.
C19_Witness ==
    /\ PushRan({197})
    /\ Before.stack_pointer = 2
    /\ Before.registers.b = 12
    /\ Before.registers.c = 255
    /\ fetch_byte_at_offset(memory, 1) = 12
    /\ fetch_byte_at_offset(memory, 0) = 255
    /\ stack_pointer = 0
    /\ status = "running"

\* C20: the push of the accumulator and the flags (0xF5) writes the
\* accumulator at sp-1 and at sp-2 the status byte with bit 7 = sign,
\* bit 6 = zero, bit 4 = auxiliary-carry, bit 2 = parity, bit 0 = carry,
\* bit 1 set and bits 3 and 5 clear, for every combination of the flags.
C20_PushStatusByte ==
    PushRan({245}) =>
        /\ status # "panicked"
        /\ fetch_byte_at_offset(memory, Before.stack_pointer - 1)
              = Before.registers.acc
        /\ fetch_byte_at_offset(memory, Before.stack_pointer - 2)
              = 128 * BoolToU8(Before.flags.sign)
                + 64 * BoolToU8(Before.flags.zero)
                + 16 * BoolToU8(Before.flags.aux_carry)
                + 4 * BoolToU8(Before.flags.parity)
                + 2
                + BoolToU8(Before.flags.carry)
        /\ stack_pointer = Before.stack_pointer - 2
        /\ OtherCellsKept(Before.stack_pointer)

\* The accumulator 0xF2 was pushed with sign, parity and carry set and zero
\* and auxiliary-carry clear: the status byte is 0b10000111.
C20_Witness ==
    /\ PushRan({245})
    /\ Before.stack_pointer = 2
    /\ Before.registers.acc = 242
    /\ Before.flags = [zero |-> FALSE, sign |-> TRUE, parity |-> TRUE,
                        carry |-> TRUE, aux_carry |-> FALSE]
    /\ fetch_byte_at_offset(memory, 1) = 242
    /\ fetch_byte_at_offset(memory, 0) = 135
    /\ stack_pointer = 0

\* The state the register form 0x80 + 8 * selector of the newest immediate
\* instruction leaves when run from the same state with register B holding
\* the immediate byte.
RegisterForm ==
    arithmetic_operation(
        [Before EXCEPT !.registers.b =
            fetch_byte_at_offset(Before.memory, Before.program_counter + 1)],
        128 + 8 * ((hist[1].op \div 8) % 8))

\* C21: each immediate arithmetic/logical instruction leaves the accumulator
\* and the flags that the register form of its selector leaves from the
\* same state with the immediate byte in a register, and leaves pc two
\* bytes on.
C21_ImmediateAsRegisterForm ==
    (/\ Len(hist) > 0
     /\ hist[1].op \in ImmediateOps
     /\ Before.program_counter + 1 < Before.memory.len) =>
        /\ status # "panicked"
        /\ registers.acc = RegisterForm.registers.acc
        /\ flags = RegisterForm.flags
        /\ program_counter = Before.program_counter + 2

\* DAD B, DAD D, DAD H, DAD SP.
DoubleAddOps == {9, 25, 41, 57}

\* The 16-bit value a double-add opcode adds to HL, in the state s.
AddendOf(s, op) ==
    CASE op = 9 -> s.registers.b * 256 + s.registers.c
      [] op = 25 -> s.registers.d * 256 + s.registers.e
      [] op = 41 -> s.registers.h * 256 + s.registers.l
      [] op = 57 -> s.stack_pointer

\* C22: the double add of BC, DE, HL or the stack pointer leaves
\* HL = (HL + pair) mod 65536 and carry true iff HL + pair > 0xFFFF, a set
\* carry being cleared when there is no overflow; zero, sign, parity,
\* auxiliary-carry, the accumulator, BC, DE and sp are unchanged.
C22_DoubleAdd ==
    (Len(hist) > 0 /\ hist[1].op \in DoubleAddOps) =>
        LET sum == Before.registers.h * 256 + Before.registers.l
                   + AddendOf(Before, hist[1].op)
        IN  /\ status # "panicked"
            /\ registers.h * 256 + registers.l = sum % 65536
            /\ flags = [Before.flags EXCEPT !.carry = (sum > 65535)]
            /\ registers = [Before.registers EXCEPT !.h = registers.h,
                                                     !.l = registers.l]
            /\ stack_pointer = Before.stack_pointer
            /\ memory = Before.memory

\* BC = 0x1122 was added to HL = 0x0003 with the carry set: HL is 0x1125
\* and the carry is clear.
C22_Witness ==
    /\ Len(hist) > 0
    /\ hist[1].op = 9
    /\ Before.registers.b = 17
    /\ Before.registers.c = 34
    /\ Before.registers.l = 3
    /\ Before.flags.carry
    /\ registers.h = 17
    /\ registers.l = 37
    /\ ~flags.carry

\* MOV d,s: 0x40..0x7F but 0x76.
TransferOps == (64..127) \ {118}

\* The register names of the selectors 0..7; selector 6 is the memory cell
\* at HL.
SelectorNames == <<"b", "c", "d", "e", "h", "l", "m", "acc">>

\* The address in HL in the state the newest instruction was executed in.
HLBefore == Before.registers.h * 256 + Before.registers.l

\* C23: a transfer gives its destination (the register of bits 3..5, or
\* the memory cell at HL for 0b110) the value of its source (the register
\* of bits 0..2, or the memory cell at HL for 0b110) and changes no other
\* register, no other memory cell and not sp; a transfer of a register to
\* itself changes nothing but pc.
C23_TransferFrame ==
    (/\ Len(hist) > 0
     /\ hist[1].op \in TransferOps
     /\ (6 \in {hist[1].op % 8, (hist[1].op \div 8) % 8}
            => HLBefore < Before.memory.len)) =>
        LET dest == (hist[1].op \div 8) % 8
        IN  /\ status # "panicked"
            /\ stack_pointer = Before.stack_pointer
            /\ program_counter = Before.program_counter + 1
            /\ memory.len = Before.memory.len
            /\ IF dest = 6
               THEN /\ registers = Before.registers
                    /\ fetch_byte_at_offset(memory, HLBefore) = Operand
                    /\ \A x \in (DOMAIN memory.cells
                                     \cup DOMAIN Before.memory.cells)
                                  \ {HLBefore} :
                           fetch_byte_at_offset(memory, x)
                               = fetch_byte_at_offset(Before.memory, x)
               ELSE /\ registers =
                          [Before.registers EXCEPT
                              ![SelectorNames[dest + 1]] = Operand]
                    /\ memory = Before.memory
            /\ (dest = hist[1].op % 8 /\ dest # 6) =>
                  (registers = Before.registers /\ memory = Before.memory
                     /\ flags = Before.flags)

\* MOV M,A ran with HL = 3 and the accumulator 62: cell 3 holds 62.
C23_Witness ==
    /\ Len(hist) > 0
    /\ hist[1].op = 119
    /\ HLBefore = 3
    /\ Before.registers.acc = 62
    /\ fetch_byte_at_offset(Before.memory, 3) = 4
    /\ fetch_byte_at_offset(memory, 3) = 62
    /\ status = "running"

\* ANA r (0xA0..0xA7) and ANI (0xE6); XRA r (0xA8..0xAF); ORA r
\* (0xB0..0xB7).
AndOps == (160..167) \cup {230}
XorOps == 168..175
OrOps == 176..183

\* The positions of the 1 bits of the byte x, and the byte of a set of
\* positions.
BitsOf(x) == {i \in 0..7 : (x \div (2 ^ i)) % 2 = 1}

ByteOf(S) ==
    LET bit(i) == IF i \in S THEN 2 ^ i ELSE 0
    IN  bit(0) + bit(1) + bit(2) + bit(3) + bit(4) + bit(5) + bit(6) + bit(7)

\* C24: and, xor and or leave accumulator = a AND v, a XOR v, a OR v, the
\* carry flag false whatever it was, and zero, sign and parity those of
\* the 8-bit result: zero iff it is 0, sign iff its bit 7 is set, parity
\* iff its population count is even.
C24_LogicalOps ==
    Done(AndOps \cup XorOps \cup OrOps) =>
        LET a == BitsOf(Before.registers.acc)
            v == BitsOf(Operand)
            r == IF hist[1].op \in AndOps THEN a \cap v
                 ELSE IF hist[1].op \in OrOps THEN a \cup v
                 ELSE (a \cup v) \ (a \cap v)
        IN  /\ registers.acc = ByteOf(r)
            /\ ~flags.carry
            /\ flags.zero = (r = {})
            /\ flags.sign = (7 \in r)
            /\ flags.parity = (Cardinality(r) % 2 = 0)

\* XRA B ran on accumulator 0xF2 and B = 0x0C with the carry set: the
\* accumulator is 0xFE, sign is set, parity (seven 1 bits) and carry are
\* clear.
C24_Witness ==
    /\ Done({168})
    /\ Before.registers.acc = 242
    /\ Before.registers.b = 12
    /\ Before.flags.carry
    /\ registers.acc = 254
    /\ flags.sign
    /\ ~flags.parity
    /\ ~flags.zero
    /\ ~flags.carry

\* The register-only instructions: NOP, STC, CMC, LDAX, XCHG, MOV, the
\* register arithmetic/logical forms, INR, DCR, RLC, RRC, DAD, INX, PUSH.
RegisterOnlyOps ==
    {0, 55, 63, 10, 26, 235} \cup TransferOps \cup (128..191)
    \cup IncrementOps \cup DecrementOps \cup {7, 15}
    \cup DoubleAddOps \cup IncrementDoubleOps \cup PushOps

\* MVI r (0x06 + 8r) and the immediate arithmetic/logical forms.
MoveImmediateOps == {6 + 8 * r : r \in 0..7}
ImmediateByteOps == MoveImmediateOps \cup ImmediateOps

\* The byte after the opcode of the newest instruction.
ImmediateByte ==
    fetch_byte_at_offset(Before.memory, Before.program_counter + 1)

\* C25: every executed register-only instruction leaves pc one byte on;
\* every executed 8-bit-immediate instruction leaves pc two bytes on and
\* takes its operand from the byte at pc + 1: a move immediate leaves that
\* byte in its destination, ADI adds it to the accumulator, ANI combines
\* it with the accumulator, CPI sets zero iff the accumulator equals it.
C25_PcAdvance ==
    /\ Done(RegisterOnlyOps) =>
          program_counter = (Before.program_counter + 1) % 65536
    /\ Done(ImmediateByteOps) =>
          /\ program_counter = (Before.program_counter + 2) % 65536
          /\ hist[1].op \in MoveImmediateOps =>
                Cell(Cpu, hist[1].op) = ImmediateByte
          /\ hist[1].op = 198 =>
                registers.acc = (Before.registers.acc + ImmediateByte) % 256
          /\ hist[1].op = 230 =>
                registers.acc = ByteOf(BitsOf(Before.registers.acc)
                                           \cap BitsOf(ImmediateByte))
          /\ hist[1].op = 254 =>
                flags.zero = (Before.registers.acc = ImmediateByte)

\* MVI A,99 ran at offset 3: the accumulator is 99 and pc is 5.
C25_Witness ==
    /\ Done({62})
    /\ Before.program_counter = 3
    /\ ImmediateByte = 99
    /\ Before.registers.acc = 242
    /\ registers.acc = 99
    /\ program_counter = 5

\* The number of 1 bits of a 16-bit value, counted bit by bit.
OnesOf(v) == Cardinality({i \in 0..15 : (v \div (2 ^ i)) % 2 = 1})

NoFlagOps ==
    {0, 10, 26, 235} \cup TransferOps \cup MoveImmediateOps \cup DirectOps
    \cup IncrementDoubleOps \cup PushOps \cup JumpOps

\* The instructions that define the carry alone: DAD, RLC, RRC, STC, CMC.
CarryOnlyOps == DoubleAddOps \cup {7, 15, 55, 63}

\* C27: an instruction that defines no flag leaves the five flags as they
\* were, whether it completes or not and whether a jump is taken or not; a
\* double add, a rotate, a set carry and an invert carry leave zero, sign,
\* parity and auxiliary-carry as they were; and no instruction other than
\* the pop of the accumulator and the flags (0xF1) changes auxiliary-carry.
C27_FlagsFrame ==
    Len(hist) > 0 =>
        /\ hist[1].op \in NoFlagOps => flags = Before.flags
        /\ hist[1].op \in CarryOnlyOps =>
              [flags EXCEPT !.carry = FALSE]
                  = [Before.flags EXCEPT !.carry = FALSE]
        /\ hist[1].op # 241 => flags.aux_carry = Before.flags.aux_carry

\* A double add of BC executed with the five flags set cleared the carry
\* alone, and the 16-bit increment that followed left the flags as they were.
C27_Witness ==
    /\ Len(hist) = 2
    /\ hist[2].op = 9
    /\ hist[2].before.flags
           = [zero |-> TRUE, sign |-> TRUE, parity |-> TRUE, carry |-> TRUE,
              aux_carry |-> TRUE]
    /\ Done({3})
    /\ Before.flags
           = [zero |-> TRUE, sign |-> TRUE, parity |-> TRUE, carry |-> FALSE,
              aux_carry |-> TRUE]
    /\ flags = Before.flags

====
